---- MODULE Spec2Model ----
(***************************************************************************)
(* Event log, ingest queue, index pointer, scheduler and snapshot builder  *)
(* of the Arke IPFS index server (api/events.py, api/event_queue.py,        *)
(* api/index_pointer.py, api/dr/build_snapshot.py).                         *)
(*                                                                         *)
(* The store is modelled by what it holds: the immutable events (a CID is  *)
(* the position of the object in the order of the dag/put calls), the      *)
(* pointer document at INDEX_POINTER_PATH, the snapshot documents and the  *)
(* snapshot lock file.  Every await / HTTP round trip of the code is one   *)
(* step of the process that makes it.                                      *)
(***************************************************************************)
EXTENDS Integers, Sequences, FiniteSets, TLC

\* ---------------------------------------------------------------- bounds
MaxEvents == 3      \* requests (enqueue_event / append_event) ever made
MaxSysEvents == 2   \* the same, in the specifications that run a builder
MaxBuilds == 2      \* builder processes ever started
MaxFires == 1       \* scheduler fires
MaxVer == 2         \* manifest versions of an entity
MaxLimit == 2       \* the limit of GET /events
MaxCids == 4        \* CIDs in the sets of the proof test script
MaxChain == 52      \* versions in the history of an entity whose chain is collected
NumCallers == 2     \* concurrent HTTP handlers calling append_event
NumBuilders == 2    \* builder processes alive at the same time

\* ------------------------------------------------------ program constants
BATCH_SIZE == 50
max_depth == 100
NULL == 0

PIs == {"A", "B"}
EventTypes == {"create", "update"}
Callers == 1..NumCallers
Builders == 1..NumBuilders

VARIABLES
    events,         \* store: the event objects, events[cid]
    pointer,        \* store: the index pointer document
    snapshots,      \* store: the snapshot documents, snapshots[cid]
    lockFile,       \* /tmp/arke-snapshot.lock: [exists, stale]
    clock,          \* wall clock, advanced by every request
    queue,          \* event_queue._event_queue
    appendLock,     \* events._event_append_lock: NULL or the caller holding it
    cpc, cptr, creq, cnew,                      \* append_event, per caller
    wpc, batch, wptr, current_head, events_written, wnew,   \* worker
    reader,         \* a client paging through GET /events
    test,           \* scripts/test_proof_integration.py: its CID sets and results
    tips,           \* the .tip files of the entities: PI -> version of its manifest
    held,           \* _event_worker's batch list (batch: what _process_batch has left)
    shutdown,       \* event_queue._shutdown_event
    cancelled,      \* stop_worker has cancelled the worker task
    spc, sptr, fires,                           \* trigger_scheduled_snapshot
    bpc, bptr, bsnap, builds,                   \* build_snapshot.main, per builder
    bwalk,          \* history: what the store let the walk of a builder see
    appended,       \* history: events whose append completed, pointer write included
    committed       \* history: CIDs of those events

storeVars == <<events, pointer, snapshots, lockFile, clock, queue>>
callerVars == <<appendLock, cpc, cptr, creq, cnew>>
workerVars == <<wpc, batch, wptr, current_head, events_written, wnew, held, shutdown, cancelled>>
schedVars == <<spc, sptr, fires>>
builderVars == <<bpc, bptr, bsnap, builds, bwalk>>
histVars == <<appended, committed>>
tipVars == <<tips>>
clientVars == <<reader, test>>
vars == <<storeVars, tipVars, clientVars, callerVars, workerVars, schedVars, builderVars, histVars>>

\* ------------------------------------------------------------- documents
\* index_pointer.get_index_pointer: the pointer returned when the path does
\* not exist (all counts 0, all CIDs null).
ZeroPointer ==
    [event_head |-> NULL, event_count |-> 0,
     latest_snapshot_cid |-> NULL, snapshot_event_cid |-> NULL,
     snapshot_seq |-> 0, snapshot_count |-> 0,
     total_count |-> 0, last_snapshot_trigger |-> NULL]

\* The CIDs of the proof are triples, so that manifests, components and
\* events can sit in one set: the events' and snapshots' own CIDs stay the
\* numbers they are in events and snapshots.
NoCid == <<"-", "-", 0>>
ManifestCid(pi, ver) == <<"manifest", pi, ver>>
ComponentCid(pi, ver) == <<"component", pi, ver>>
EventCid(cid) == <<"event", "-", cid>>

\* dag/get of a manifest: version ver of an entity links to version ver - 1
\* and to its own components (one here).
Manifest(cid) ==
    [ver |-> cid[3],
     prev |-> IF cid[3] > 1 THEN ManifestCid(cid[2], cid[3] - 1) ELSE NoCid,
     components |-> <<ComponentCid(cid[2], cid[3])>>]

\* files/read of /arke/index/../{pi}.tip: the CID of the current manifest.
TipOf(pi) == ManifestCid(pi, tips[pi])

\* models.Event as built by append_event / _process_batch; via records the
\* path that wrote it (history only).
NewEvent(type, pi, ver, tip_cid, ts, prev, via) ==
    [type |-> type, pi |-> pi, ver |-> ver, tip_cid |-> tip_cid, ts |-> ts,
     prev |-> prev, via |-> via]

\* The CID the next dag/put of an event returns.
NextCid == Len(events) + 1

\* Walk of the prev links from h, newest first (query_events, walk_event_chain).
RECURSIVE Chain(_)
Chain(h) == IF h = NULL THEN <<>> ELSE <<h>> \o Chain(events[h].prev)

Range(s) == {s[i] : i \in DOMAIN s}
Reach(h) == Range(Chain(h))

\* No walk made (yet).
NoWalk == [nfetch |-> 0, tipFail |-> {}]

\* No pagination under way.
NoReader == [pc |-> "idle", limit |-> 0, cursor |-> NULL, items |-> <<>>, head |-> NULL]

\* ------------------------------------------------------------------ Init
\* The server and the store after first boot, nobody reading.
InitProgram ==
    /\ reader = NoReader
    /\ events = <<>>
    /\ pointer = ZeroPointer
    /\ snapshots = <<>>
    /\ lockFile = [exists |-> FALSE, stale |-> FALSE]
    /\ clock = 0
    /\ queue = <<>>
    /\ appendLock = NULL
    /\ cpc = [c \in Callers |-> "idle"]
    /\ cptr = [c \in Callers |-> ZeroPointer]
    /\ creq = [c \in Callers |-> NULL]
    /\ cnew = [c \in Callers |-> NULL]
    /\ wpc = "get"
    /\ batch = <<>>
    /\ wptr = ZeroPointer
    /\ current_head = NULL
    /\ events_written = 0
    /\ wnew = {}
    /\ tips = [pi \in PIs |-> 1]
    /\ held = <<>>
    /\ shutdown = FALSE
    /\ cancelled = FALSE
    /\ spc = "idle"
    /\ sptr = ZeroPointer
    /\ fires = 0
    /\ bpc = [b \in Builders |-> "idle"]
    /\ bptr = [b \in Builders |-> ZeroPointer]
    /\ bsnap = [b \in Builders |-> NULL]
    /\ builds = 0
    /\ bwalk = [b \in Builders |-> NoWalk]
    /\ appended = 0
    /\ committed = {}

\* ------------------------------------------------- events.append_event
\* append_event without the with block.
LockFreeNoLock == TRUE

\* async with _event_append_lock: the lock can be taken when nobody holds it.
LockFree == appendLock = NULL

\* Requests made so far: every one advances the clock when it is stamped.
Requests == clock + Cardinality({c \in Callers : cpc[c] = "wait"})

\* A handler calls append_event and waits for the lock (the arguments of the
\* call are drawn where they are first used, in AppendRead).
AppendCall(c) ==
    /\ cpc[c] = "idle"
    /\ Requests < MaxEvents
    /\ cpc' = [cpc EXCEPT ![c] = "wait"]
    /\ UNCHANGED <<storeVars, appendLock, cptr, creq, cnew>>
    /\ UNCHANGED <<tips, clientVars, workerVars, schedVars, builderVars, histVars>>

\* Steps 1-2: take the lock, read the pointer, stamp the event with now().
AppendRead(c, type, pi, ver, tip_cid) ==
    /\ cpc[c] = "wait"
    /\ LockFree
    /\ appendLock' = c
    /\ clock' = clock + 1
    /\ cptr' = [cptr EXCEPT ![c] = pointer]
    /\ creq' = [creq EXCEPT ![c] = [type |-> type, pi |-> pi, ver |-> ver,
                                    tip_cid |-> tip_cid, ts |-> clock + 1]]
    /\ cpc' = [cpc EXCEPT ![c] = "put"]
    /\ UNCHANGED <<events, pointer, snapshots, lockFile, queue, cnew>>
    /\ UNCHANGED <<tips, clientVars, workerVars, schedVars, builderVars, histVars>>

\* Step 3: dag/put of the event with prev = pointer.event_head.
AppendPut(c) ==
    /\ cpc[c] = "put"
    /\ events' = Append(events,
          NewEvent(creq[c].type, creq[c].pi, creq[c].ver, creq[c].tip_cid, creq[c].ts,
                   cptr[c].event_head, "append"))
    /\ cnew' = [cnew EXCEPT ![c] = NextCid]
    /\ cpc' = [cpc EXCEPT ![c] = "write"]
    /\ UNCHANGED <<pointer, snapshots, lockFile, clock, queue, appendLock, cptr, creq>>
    /\ UNCHANGED <<tips, clientVars, workerVars, schedVars, builderVars, histVars>>

\* Step 3 fails (raise_for_status): the exception leaves the with block, the
\* lock is released and nothing was written.
AppendPutFail(c) ==
    /\ cpc[c] = "put"
    /\ appendLock' = IF appendLock = c THEN NULL ELSE appendLock
    /\ cpc' = [cpc EXCEPT ![c] = "idle"]
    /\ cptr' = [cptr EXCEPT ![c] = ZeroPointer]
    /\ creq' = [creq EXCEPT ![c] = NULL]
    /\ UNCHANGED <<storeVars, cnew>>
    /\ UNCHANGED <<tips, clientVars, workerVars, schedVars, builderVars, histVars>>

\* The pointer append_event writes back: head, event_count, and total_count
\* on a create.
AppendPointer(p, type, new_cid) ==
    [p EXCEPT !.event_head = new_cid,
              !.event_count = @ + 1,
              !.total_count = IF type = "create" THEN @ + 1 ELSE @]

\* Steps 4-5: write the pointer and leave the with block.
AppendWrite(c) ==
    /\ cpc[c] = "write"
    /\ pointer' = AppendPointer(cptr[c], creq[c].type, cnew[c])
    /\ appendLock' = IF appendLock = c THEN NULL ELSE appendLock
    /\ cpc' = [cpc EXCEPT ![c] = "idle"]
    /\ appended' = appended + 1
    /\ committed' = committed \cup {cnew[c]}
    /\ cptr' = [cptr EXCEPT ![c] = ZeroPointer]
    /\ creq' = [creq EXCEPT ![c] = NULL]
    /\ cnew' = [cnew EXCEPT ![c] = NULL]
    /\ UNCHANGED <<events, snapshots, lockFile, clock, queue>>
    /\ UNCHANGED <<tips, clientVars, workerVars, schedVars, builderVars>>

\* A failed pointer write that has moved the pointer all the same.
AppendWriteFailMoved(c) ==
    /\ cpc[c] = "write"
    /\ pointer' = AppendPointer(cptr[c], creq[c].type, cnew[c])
    /\ appendLock' = IF appendLock = c THEN NULL ELSE appendLock
    /\ cpc' = [cpc EXCEPT ![c] = "idle"]
    /\ cptr' = [cptr EXCEPT ![c] = ZeroPointer]
    /\ creq' = [creq EXCEPT ![c] = NULL]
    /\ cnew' = [cnew EXCEPT ![c] = NULL]
    /\ UNCHANGED <<events, snapshots, lockFile, clock, queue>>
    /\ UNCHANGED <<tips, clientVars, workerVars, schedVars, builderVars, histVars>>

\* Step 4 fails (update_index_pointer raises): the exception leaves the with
\* block, the lock is released, the event stays in the store and the pointer
\* is not written.
AppendWriteFail(c) ==
    /\ cpc[c] = "write"
    /\ appendLock' = IF appendLock = c THEN NULL ELSE appendLock
    /\ cpc' = [cpc EXCEPT ![c] = "idle"]
    /\ cptr' = [cptr EXCEPT ![c] = ZeroPointer]
    /\ creq' = [creq EXCEPT ![c] = NULL]
    /\ cnew' = [cnew EXCEPT ![c] = NULL]
    /\ UNCHANGED <<storeVars>>
    /\ UNCHANGED <<tips, clientVars, workerVars, schedVars, builderVars, histVars>>

append_event(c) ==
    \/ AppendCall(c)
    \/ \E type \in EventTypes, pi \in PIs :
           AppendRead(c, type, pi, tips[pi], TipOf(pi))
    \/ AppendPut(c)
    \/ AppendPutFail(c)
    \/ AppendWrite(c)
    \/ AppendWriteFail(c)

\* ------------------------------------------------- event_queue
\* enqueue_event: stamp ts = now() and put the item on the queue.
enqueue_event(type, pi, ver, tip_cid) ==
    /\ Requests < MaxEvents
    /\ clock' = clock + 1
    /\ queue' = Append(queue, [type |-> type, pi |-> pi, ver |-> ver,
                              tip_cid |-> tip_cid, ts |-> clock + 1])
    /\ UNCHANGED <<events, pointer, snapshots, lockFile>>
    /\ UNCHANGED <<tips, clientVars, callerVars, workerVars, schedVars, builderVars, histVars>>

\* The worker that leaves its loop as soon as the shutdown flag is set.
WorkerLoopsFlagOnly == ~shutdown

\* while not _shutdown_event.is_set() or not _event_queue.empty()
WorkerLoops == ~shutdown \/ queue # <<>>

\* _event_worker: wait for the first item of a batch.
WorkerGetFirst ==
    /\ wpc = "get"
    /\ WorkerLoops
    /\ queue # <<>>
    /\ batch' = <<Head(queue)>>
    /\ held' = <<Head(queue)>>
    /\ queue' = Tail(queue)
    /\ wpc' = "collect"
    /\ UNCHANGED <<events, pointer, snapshots, lockFile, clock>>
    /\ UNCHANGED <<wptr, current_head, events_written, wnew, shutdown, cancelled>>
    /\ UNCHANGED <<tips, clientVars, callerVars, schedVars, builderVars, histVars>>

\* _event_worker: collect one more item before the batch deadline.
WorkerCollect ==
    /\ wpc = "collect"
    /\ ~cancelled
    /\ Len(batch) < BATCH_SIZE
    /\ queue # <<>>
    /\ batch' = Append(batch, Head(queue))
    /\ held' = Append(held, Head(queue))
    /\ queue' = Tail(queue)
    /\ UNCHANGED <<events, pointer, snapshots, lockFile, clock>>
    /\ UNCHANGED <<wpc, wptr, current_head, events_written, wnew, shutdown, cancelled>>
    /\ UNCHANGED <<tips, clientVars, callerVars, schedVars, builderVars, histVars>>

\* _process_batch, first await: read the pointer once (the batch is full or
\* its deadline passed).  No lock is taken.
BatchRead ==
    /\ wpc = "collect"
    /\ wptr' = pointer
    /\ current_head' = pointer.event_head
    /\ events_written' = 0
    /\ wnew' = {}
    /\ wpc' = "items"
    /\ UNCHANGED <<storeVars, batch, held, shutdown, cancelled>>
    /\ UNCHANGED <<tips, clientVars, callerVars, schedVars, builderVars, histVars>>

\* _process_batch, first step, when the store answers the files/read of the
\* pointer with HTTP 500 although the file exists: get_index_pointer takes
\* any 500 for a missing file and returns the zero pointer.
BatchRead500 ==
    /\ wpc = "collect"
    /\ pointer # ZeroPointer
    /\ wptr' = ZeroPointer
    /\ current_head' = NULL
    /\ events_written' = 0
    /\ wnew' = {}
    /\ wpc' = "items"
    /\ UNCHANGED <<storeVars, batch, held, shutdown, cancelled>>
    /\ UNCHANGED <<tips, clientVars, callerVars, schedVars, builderVars, histVars>>

\* _process_batch, first step, when the pointer read times out or gets a
\* status other than 500: get_index_pointer raises, the batch is dropped
\* and nothing is written.
BatchReadRaise ==
    /\ wpc = "collect"
    /\ wpc' = IF cancelled THEN "done" ELSE "get"
    /\ batch' = <<>>
    /\ held' = <<>>
    /\ UNCHANGED <<storeVars, wptr, current_head, events_written, wnew>>
    /\ UNCHANGED <<shutdown, cancelled>>
    /\ UNCHANGED <<tips, clientVars, callerVars, schedVars, builderVars, histVars>>

\* A batch that links every item to the head read at its start.
BatchPrevStale == wptr.event_head

\* A batch that links an item to a CID that is not the running head (one no
\* event has yet).
BatchPrevTip == NextCid

\* The prev link of the next event of the batch: the running head.
BatchPrev == current_head

\* _process_batch, loop body: dag/put of the next item, advance the running
\* head and the counts.
BatchItem ==
    /\ wpc = "items"
    /\ batch # <<>>
    /\ LET item == Head(batch) IN
        /\ events' = Append(events,
              NewEvent(item.type, item.pi, item.ver, item.tip_cid, item.ts, BatchPrev, "queue"))
        /\ current_head' = NextCid
        /\ wptr' = [wptr EXCEPT !.event_count = @ + 1,
                                !.total_count = IF item.type = "create" THEN @ + 1 ELSE @]
        /\ events_written' = events_written + 1
        /\ wnew' = wnew \cup {NextCid}
    /\ batch' = Tail(batch)
    /\ UNCHANGED <<pointer, snapshots, lockFile, clock, queue, wpc, held, shutdown, cancelled>>
    /\ UNCHANGED <<tips, clientVars, callerVars, schedVars, builderVars, histVars>>

\* A batch that counts an item whose dag/put raised.
BatchItemFailCounted ==
    /\ wpc = "items"
    /\ batch # <<>>
    /\ batch' = Tail(batch)
    /\ wptr' = [wptr EXCEPT !.event_count = @ + 1]
    /\ UNCHANGED <<storeVars, wpc, current_head, events_written, wnew>>
    /\ UNCHANGED <<held, shutdown, cancelled>>
    /\ UNCHANGED <<tips, clientVars, callerVars, schedVars, builderVars, histVars>>

\* _process_batch, loop body when the dag/put raises: log and go on with the
\* next item.
BatchItemFail ==
    /\ wpc = "items"
    /\ batch # <<>>
    /\ batch' = Tail(batch)
    /\ UNCHANGED <<storeVars, wpc, wptr, current_head, events_written, wnew>>
    /\ UNCHANGED <<held, shutdown, cancelled>>
    /\ UNCHANGED <<tips, clientVars, callerVars, schedVars, builderVars, histVars>>

\* _process_batch, after the loop: one pointer write when something was
\* written; the worker then waits for the next batch, or is gone when it ran
\* the batch in its CancelledError handler.
BatchWrite ==
    /\ wpc = "items"
    /\ batch = <<>>
    /\ IF events_written > 0
       THEN /\ pointer' = [wptr EXCEPT !.event_head = current_head]
            /\ appended' = appended + events_written
            /\ committed' = committed \cup wnew
       ELSE UNCHANGED <<pointer, histVars>>
    /\ wpc' = IF cancelled THEN "done" ELSE "get"
    /\ wptr' = ZeroPointer
    /\ current_head' = NULL
    /\ events_written' = 0
    /\ wnew' = {}
    /\ held' = <<>>
    /\ UNCHANGED <<events, snapshots, lockFile, clock, queue, batch, shutdown, cancelled>>
    /\ UNCHANGED <<tips, clientVars, callerVars, schedVars, builderVars>>

_event_worker ==
    \/ WorkerGetFirst
    \/ WorkerCollect
    \/ BatchRead
    \/ BatchItem
    \/ BatchItemFail
    \/ BatchWrite

\* _event_worker: the loop condition is false, the worker returns.
WorkerExit ==
    /\ wpc = "get"
    /\ ~WorkerLoops
    /\ wpc' = "done"
    /\ UNCHANGED <<storeVars, batch, wptr, current_head, events_written, wnew>>
    /\ UNCHANGED <<held, shutdown, cancelled>>
    /\ UNCHANGED <<tips, clientVars, callerVars, schedVars, builderVars, histVars>>

\* stop_worker: signal shutdown.
StopWorker ==
    /\ ~shutdown
    /\ shutdown' = TRUE
    /\ UNCHANGED <<storeVars, wpc, batch, wptr, current_head, events_written, wnew>>
    /\ UNCHANGED <<held, cancelled>>
    /\ UNCHANGED <<tips, clientVars, callerVars, schedVars, builderVars, histVars>>

\* stop_worker: wait_for(_worker_task, timeout=60.0) expires and the task is
\* cancelled at the await it is in.  With no batch in hand the worker is
\* gone; otherwise its CancelledError handler runs _process_batch on the
\* batch it holds, from the start, and then the worker is gone.
StopTimeout ==
    /\ shutdown
    /\ ~cancelled
    /\ wpc # "done"
    /\ cancelled' = TRUE
    /\ IF wpc = "get"
       THEN /\ wpc' = "done"
            /\ UNCHANGED <<batch, wptr, current_head, events_written, wnew>>
       ELSE /\ wpc' = "collect"
            /\ batch' = held
            /\ wptr' = ZeroPointer
            /\ current_head' = NULL
            /\ events_written' = 0
            /\ wnew' = {}
    /\ UNCHANGED <<storeVars, held, shutdown>>
    /\ UNCHANGED <<tips, clientVars, callerVars, schedVars, builderVars, histVars>>

\* stop_worker: the task is cancelled while _process_batch awaits
\* update_index_pointer and the store has already taken the write: the
\* pointer of the batch is in place, CancelledError passes the except
\* Exception of _process_batch, and the handler of _event_worker runs
\* _process_batch on the same batch again.  (When the store has not taken
\* the write, the step is StopTimeout.)
StopTimeoutInWrite ==
    /\ shutdown
    /\ ~cancelled
    /\ wpc = "items"
    /\ batch = <<>>
    /\ events_written > 0
    /\ pointer' = [wptr EXCEPT !.event_head = current_head]
    /\ appended' = appended + events_written
    /\ committed' = committed \cup wnew
    /\ cancelled' = TRUE
    /\ wpc' = "collect"
    /\ batch' = held
    /\ wptr' = ZeroPointer
    /\ current_head' = NULL
    /\ events_written' = 0
    /\ wnew' = {}
    /\ UNCHANGED <<events, snapshots, lockFile, clock, queue, held, shutdown>>
    /\ UNCHANGED <<tips, clientVars, callerVars, schedVars, builderVars>>

stop_worker == StopWorker \/ StopTimeout \/ StopTimeoutInWrite

\* ------------------------------------------- events.trigger_scheduled_snapshot
\* A fire that finds the lock file, or no entities, returns at once.
SchedSkip ==
    /\ spc = "idle"
    /\ fires < MaxFires
    /\ lockFile.exists \/ pointer.total_count = 0
    /\ fires' = fires + 1
    /\ UNCHANGED <<storeVars, spc, sptr>>
    /\ UNCHANGED <<tips, clientVars, callerVars, workerVars, builderVars, histVars>>

\* Otherwise it reads the pointer ...
SchedRead ==
    /\ spc = "idle"
    /\ fires < MaxFires
    /\ builds < MaxBuilds
    /\ ~lockFile.exists
    /\ pointer.total_count # 0
    /\ fires' = fires + 1
    /\ sptr' = pointer
    /\ spc' = "write"
    /\ UNCHANGED <<storeVars>>
    /\ UNCHANGED <<tips, clientVars, callerVars, workerVars, builderVars, histVars>>

\* A scheduler that goes on to the launch without its stamp.
SchedWriteNoStamp ==
    /\ spc = "write"
    /\ spc' = "launch"
    /\ sptr' = ZeroPointer
    /\ UNCHANGED <<storeVars, fires>>
    /\ UNCHANGED <<tips, clientVars, callerVars, workerVars, builderVars, histVars>>

\* ... writes back the document it read, with last_snapshot_trigger stamped ...
SchedWrite ==
    /\ spc = "write"
    /\ pointer' = [sptr EXCEPT !.last_snapshot_trigger = fires]
    /\ spc' = "launch"
    /\ sptr' = ZeroPointer
    /\ UNCHANGED <<events, snapshots, lockFile, clock, queue, fires>>
    /\ UNCHANGED <<tips, clientVars, callerVars, workerVars, builderVars, histVars>>

\* ------------------------------------------------- dr/build_snapshot.py
\* One line of the checkpoint file.
\* The entity's owner writes a new version of its manifest and moves the tip.
TipUpdate(pi) ==
    /\ tips[pi] < MaxVer
    /\ tips' = [tips EXCEPT ![pi] = @ + 1]
    /\ UNCHANGED <<storeVars, callerVars, workerVars, schedVars, builderVars, histVars>>
    /\ UNCHANGED clientVars

\* The checkpoint line of a PI: the tip as read now, the version of its
\* manifest, and the event at which the walk met the PI.
Entry(pi, ts, chain_cid) ==
    [pi |-> pi, ver |-> Manifest(TipOf(pi)).ver, tip_cid |-> TipOf(pi),
     ts |-> ts, chain_cid |-> chain_cid]

\* The checkpoint lines left in walk order.
ReverseNot(s) == s

\* list.reverse()
RECURSIVE Reverse(_)
Reverse(s) == IF s = <<>> THEN <<>> ELSE Reverse(Tail(s)) \o <<Head(s)>>

\* The first n elements of s (the events fetched before a dag/get fails).
Prefix(s, n) == SubSeq(s, 1, IF n < Len(s) THEN n ELSE Len(s))

\* A full walk without seen_pis: every event makes an entry.
RECURSIVE FullWalkNoSeen(_, _, _)
FullWalkNoSeen(cids, seen_pis, tipFail) ==
    IF cids = <<>> THEN [entries |-> <<>>, count |-> 0]
    ELSE LET current == Head(cids)
             rest == FullWalkNoSeen(Tail(cids), seen_pis, tipFail)
             line == IF current \in tipFail
                     THEN <<>>
                     ELSE <<Entry(events[current].pi, events[current].ts, current)>>
         IN  [entries |-> line \o rest.entries, count |-> rest.count + 1]

\* walk_event_chain: newest first, the first event met for a PI makes its
\* entry; a PI whose tip file cannot be read is counted and not written.
\* cids: the events fetched; tipFail: the events at which files/read fails.
\* Result: the checkpoint lines in walk order and the returned count.
RECURSIVE FullWalk(_, _, _)
FullWalk(cids, seen_pis, tipFail) ==
    IF cids = <<>> THEN [entries |-> <<>>, count |-> 0]
    ELSE LET current == Head(cids)
             pi == events[current].pi
         IN  IF pi \in seen_pis
             THEN FullWalk(Tail(cids), seen_pis, tipFail)
             ELSE LET rest == FullWalk(Tail(cids), seen_pis \cup {pi}, tipFail)
                      line == IF current \in tipFail
                              THEN <<>>
                              ELSE <<Entry(pi, events[current].ts, current)>>
                  IN  [entries |-> line \o rest.entries, count |-> rest.count + 1]

walk_event_chain(event_head, nfetch, tipFail) ==
    FullWalk(Prefix(Chain(event_head), nfetch), {}, tipFail)

\* A dict that keeps the old value of a key and adds the new one after it.
DictSetKeepsOld(d, entry) == d \o <<entry>>

\* A Python dict keyed by PI, kept as its values in insertion order:
\* assigning an existing key keeps its place, a new key goes last.
RECURSIVE DictSet(_, _)
DictSet(d, entry) ==
    IF d = <<>> THEN <<entry>>
    ELSE IF Head(d).pi = entry.pi THEN <<entry>> \o Tail(d)
    ELSE <<Head(d)>> \o DictSet(Tail(d), entry)

\* load_previous_snapshot: {e["pi"]: e for e in snapshot["entries"]}
RECURSIVE DictOf(_)
DictOf(entries) ==
    IF entries = <<>> THEN <<>>
    ELSE DictSet(DictOf(SubSeq(entries, 1, Len(entries) - 1)), entries[Len(entries)])

\* while current and current != stop_at_cid: the events of the delta.
RECURSIVE ChainUntil(_, _)
ChainUntil(h, stop_at_cid) ==
    IF h = NULL \/ h = stop_at_cid THEN <<>>
    ELSE <<h>> \o ChainUntil(events[h].prev, stop_at_cid)

\* walk_event_chain_incremental: every event of the delta overwrites the
\* entry of its PI (unless its tip file cannot be read).
RECURSIVE IncrWalk(_, _, _)
IncrWalk(cids, prev_entries, tipFail) ==
    IF cids = <<>> THEN prev_entries
    ELSE LET current == Head(cids)
             e == events[current]
         IN  IncrWalk(Tail(cids),
                      IF current \in tipFail
                      THEN prev_entries
                      ELSE DictSet(prev_entries, Entry(e.pi, e.ts, current)),
                      tipFail)

walk_event_chain_incremental(event_head, stop_at_cid, prev_entries, nfetch, tipFail) ==
    IncrWalk(Prefix(ChainUntil(event_head, stop_at_cid), nfetch), prev_entries, tipFail)

\* collect_version_chain_cids: the manifests from the tip back along prev,
\* each followed by its components, until max_depth CIDs are collected.
RECURSIVE VersionChain(_, _)
VersionChain(current, cids) ==
    IF current = NoCid \/ Len(cids) >= max_depth THEN cids
    ELSE LET manifest == Manifest(current)
             collected == <<current>> \o manifest.components
         IN  VersionChain(manifest.prev, cids \o collected)

collect_version_chain_cids(tip_cid) == VersionChain(tip_cid, <<>>)

\* A CID collection that starts from nothing in every mode.
BaseCidsEmpty(prev_all_cids) == {}

\* all_cids = set(prev_all_cids) if prev_all_cids else set()
BaseCids(prev_all_cids) == prev_all_cids

\* modified_pis = None: walk every entry.
NonePis == {"None"}

\* collect_all_cids: the base set, and for every entry to walk the version
\* chain of its tip and its chain_cid.
entries_to_walk(entries, modified_pis) ==
    {i \in DOMAIN entries : modified_pis = NonePis \/ entries[i].pi \in modified_pis}

collect_all_cids(entries, prev_all_cids, modified_pis) ==
    BaseCids(prev_all_cids) \cup
    UNION {Range(collect_version_chain_cids(entries[i].tip_cid))
               \cup {EventCid(entries[i].chain_cid)} :
           i \in entries_to_walk(entries, modified_pis)}

\* The order of sorted() on CID strings: a fixed total order.
StrOrd(str) ==
    CASE str = "-" -> 0
      [] str = "A" -> 1
      [] str = "B" -> 2
      [] str = "component" -> 3
      [] str = "event" -> 4
      [] str = "manifest" -> 5

CidLess(a, b) ==
    \/ StrOrd(a[1]) < StrOrd(b[1])
    \/ a[1] = b[1] /\ StrOrd(a[2]) < StrOrd(b[2])
    \/ a[1] = b[1] /\ a[2] = b[2] /\ a[3] < b[3]

\* A Python set is iterated in an order the program does not choose: a set
\* as the list of its elements in one such order.
RECURSIVE IterOrder(_)
IterOrder(cids) ==
    IF cids = {} THEN <<>>
    ELSE LET first == CHOOSE c \in cids : TRUE
         IN  <<first>> \o IterOrder(cids \ {first})

\* A build_merkle_root that keeps the CIDs in the order it gets them.
sortedNot(cids) == cids

\* sorted(cids) of the CIDs in the order the set yields them: each is put
\* at its place among those already sorted.
RECURSIVE Insert(_, _)
Insert(c, sorted_cids) ==
    IF sorted_cids = <<>> THEN <<c>>
    ELSE IF CidLess(c, Head(sorted_cids)) THEN <<c>> \o sorted_cids
    ELSE <<Head(sorted_cids)>> \o Insert(c, Tail(sorted_cids))

RECURSIVE sorted(_)
sorted(cids) ==
    IF cids = <<>> THEN <<>> ELSE Insert(Head(cids), sorted(Tail(cids)))

\* SimpleMerkleTree._hash: a digest that determines its input, written as
\* the input between two marks.
Hash(data) == <<<<"(", "-", 0>>>> \o data \o <<<<")", "-", 0>>>>

\* A level step that moves an odd last node up as it is.
RECURSIVE NextLevelPromotesOdd(_)
NextLevelPromotesOdd(current_level) ==
    IF current_level = <<>> THEN <<>>
    ELSE IF Len(current_level) = 1
    THEN <<current_level[1]>>
    ELSE <<Hash(current_level[1] \o current_level[2])>>
             \o NextLevelPromotesOdd(SubSeq(current_level, 3, Len(current_level)))

\* SimpleMerkleTree._build_tree, one level up: pairs from the left, an odd
\* last node paired with itself.
RECURSIVE NextLevel(_)
NextLevel(current_level) ==
    IF current_level = <<>> THEN <<>>
    ELSE IF Len(current_level) = 1
    THEN <<Hash(current_level[1] \o current_level[1])>>
    ELSE <<Hash(current_level[1] \o current_level[2])>>
             \o NextLevel(SubSeq(current_level, 3, Len(current_level)))

RECURSIVE TreeRoot(_)
TreeRoot(current_level) ==
    IF Len(current_level) = 1 THEN current_level[1]
    ELSE TreeRoot(NextLevel(current_level))

\* SimpleMerkleTree(leaves).root
SimpleMerkleTree(leaves) ==
    IF leaves = <<>> THEN Hash(<<>>)
    ELSE TreeRoot([i \in DOMAIN leaves |-> Hash(<<leaves[i]>>)])

\* build_merkle_root of a set given in its iteration order.
build_merkle_root(cids) ==
    LET sorted_cids == sorted(cids)
    IN  [merkle_root |-> SimpleMerkleTree(sorted_cids), sorted_cids |-> sorted_cids]

\* A consistency check that takes the difference the other way round.
generate_consistency_info_swapped(prev_cids, curr_cids) ==
    [prev_cid_count |-> Cardinality(prev_cids),
     curr_cid_count |-> Cardinality(curr_cids),
     added_count |-> Cardinality(prev_cids \ curr_cids),
     deleted_count |-> Cardinality(curr_cids \ prev_cids),
     is_append_only |-> Cardinality(curr_cids \ prev_cids) = 0,
     is_none |-> FALSE]

\* generate_consistency_info
generate_consistency_info(prev_cids, curr_cids) ==
    [prev_cid_count |-> Cardinality(prev_cids),
     curr_cid_count |-> Cardinality(curr_cids),
     added_count |-> Cardinality(curr_cids \ prev_cids),
     deleted_count |-> Cardinality(prev_cids \ curr_cids),
     is_append_only |-> Cardinality(prev_cids \ curr_cids) = 0,
     is_none |-> FALSE]

\* snapshot["consistency"] = None, snapshot["merkle_root"] = None
NoConsistency ==
    [prev_cid_count |-> 0, curr_cid_count |-> 0, added_count |-> 0,
     deleted_count |-> 0, is_append_only |-> TRUE, is_none |-> TRUE]

NoRoot == <<>>

\* A builder that builds incrementally even when nothing is new.
ModeNeverNoop(p) ==
    IF p.latest_snapshot_cid # NULL /\ p.snapshot_event_cid # NULL
    THEN "incremental"
    ELSE "full"

\* main, mode selection on the pointer read at start.
Mode(p) ==
    IF p.latest_snapshot_cid # NULL /\ p.snapshot_event_cid # NULL
    THEN IF p.event_head = p.snapshot_event_cid THEN "noop" ELSE "incremental"
    ELSE "full"

\* build_snapshot_json: the checkpoint lines reversed, with the header
\* fields, and the proof fields when CIDs were collected (the consistency
\* record when there are previous CIDs).
build_snapshot_json(checkpoint, p, seq, total_count, all_cids, prev_all_cids) ==
    LET proof == build_merkle_root(IterOrder(all_cids)) IN
    [seq |-> seq,
     event_cid |-> p.event_head,
     prev_snapshot |-> p.latest_snapshot_cid,
     total_count |-> total_count,
     entries |-> Reverse(checkpoint),
     merkle_root |-> IF all_cids # {} THEN proof.merkle_root ELSE NoRoot,
     cid_count |-> Cardinality(all_cids),
     all_cids |-> IF all_cids # {} THEN proof.sorted_cids ELSE <<>>,
     consistency |-> IF all_cids # {} /\ prev_all_cids # {}
                     THEN generate_consistency_info(prev_all_cids, all_cids)
                     ELSE NoConsistency]

\* A builder that takes snapshot_event_cid from the pointer as it is at commit.
SnapshotPointerLateCut(p, snapshot_cid, seq, total_count) ==
    [event_head |-> p.event_head,
     event_count |-> p.event_count,
     latest_snapshot_cid |-> snapshot_cid,
     snapshot_event_cid |-> pointer.event_head,
     snapshot_seq |-> seq,
     snapshot_count |-> total_count,
     total_count |-> total_count,
     last_snapshot_trigger |-> NULL]

\* A builder that writes back the snapshot_seq it read.
SnapshotPointerOldSeq(p, snapshot_cid, seq, total_count) ==
    [event_head |-> p.event_head,
     event_count |-> p.event_count,
     latest_snapshot_cid |-> snapshot_cid,
     snapshot_event_cid |-> p.event_head,
     snapshot_seq |-> p.snapshot_seq,
     snapshot_count |-> total_count,
     total_count |-> total_count,
     last_snapshot_trigger |-> NULL]

\* update_index_pointer of the builder: a new document made from the pointer
\* read at build start.
SnapshotPointer(p, snapshot_cid, seq, total_count) ==
    [event_head |-> p.event_head,
     event_count |-> p.event_count,
     latest_snapshot_cid |-> snapshot_cid,
     snapshot_event_cid |-> p.event_head,
     snapshot_seq |-> seq,
     snapshot_count |-> total_count,
     total_count |-> total_count,
     last_snapshot_trigger |-> NULL]

\* check_lock: a lock younger than 600 s is fatal (error() raises SystemExit
\* and main's finally runs); an older one is removed; then the lock file is
\* written.
LockBlocks == lockFile.exists /\ ~lockFile.stale

check_lock(b) ==
    /\ IF LockBlocks
       THEN /\ bpc' = [bpc EXCEPT ![b] = "failfast"]
            /\ UNCHANGED lockFile
       ELSE /\ lockFile' = [exists |-> TRUE, stale |-> FALSE]
            /\ bpc' = [bpc EXCEPT ![b] = "read"]
    /\ builds' = builds + 1
    /\ UNCHANGED <<events, pointer, snapshots, clock, queue, bptr, bsnap, bwalk>>
    /\ UNCHANGED <<tips, clientVars, callerVars, workerVars, histVars>>

\* python3 -m dr.build_snapshot started by hand: main begins with check_lock.
BuilderStart(b) ==
    /\ bpc[b] = "idle"
    /\ builds < MaxBuilds
    /\ check_lock(b)
    /\ UNCHANGED schedVars

\* trigger_scheduled_snapshot, last step: the builder runs as a subprocess of
\* the thread pool.
SchedLaunch(b) ==
    /\ spc = "launch"
    /\ bpc[b] = "idle"
    /\ spc' = "idle"
    /\ check_lock(b)
    /\ UNCHANGED <<sptr, fires>>

\* The lock file grows older than 600 s.
LockAges ==
    /\ lockFile.exists
    /\ ~lockFile.stale
    /\ lockFile' = [lockFile EXCEPT !.stale = TRUE]
    /\ UNCHANGED <<events, pointer, snapshots, clock, queue>>
    /\ UNCHANGED <<tips, clientVars, callerVars, workerVars, schedVars, builderVars, histVars>>

\* main: read the pointer; no event head is fatal; nothing new since the
\* last snapshot: cleanup_lock() and return.
BuilderRead(b) ==
    /\ bpc[b] = "read"
    /\ bptr' = [bptr EXCEPT ![b] = pointer]
    /\ IF pointer.event_head = NULL
       THEN /\ bpc' = [bpc EXCEPT ![b] = "finally"]
            /\ UNCHANGED lockFile
       ELSE IF Mode(pointer) = "noop"
       THEN /\ bpc' = [bpc EXCEPT ![b] = "finally"]
            /\ lockFile' = [exists |-> FALSE, stale |-> FALSE]
       ELSE /\ bpc' = [bpc EXCEPT ![b] = "build"]
            /\ UNCHANGED lockFile
    /\ UNCHANGED <<events, pointer, snapshots, clock, queue, bsnap, bwalk, builds>>
    /\ UNCHANGED <<tips, clientVars, callerVars, workerVars, schedVars, histVars>>

\* load_previous_snapshot: the entries keyed by PI and the set of all_cids.
load_previous_snapshot(snapshot_cid) ==
    [entries_dict |-> DictOf(snapshots[snapshot_cid].entries),
     prev_all_cids |-> Range(snapshots[snapshot_cid].all_cids)]

\* Phase 1 for either mode: the checkpoint lines, total_count, and for
\* phase 2 the previous CIDs and modified_pis (in incremental mode the PIs
\* of the checkpoint file, which holds every entry).
Phase1(p, nfetch, tipFail) ==
    IF Mode(p) = "incremental"
    THEN LET prev == load_previous_snapshot(p.latest_snapshot_cid)
             prev_entries ==
                 walk_event_chain_incremental(p.event_head, p.snapshot_event_cid,
                     prev.entries_dict, nfetch, tipFail)
         IN  [entries |-> prev_entries, count |-> Len(prev_entries),
              prev_all_cids |-> prev.prev_all_cids,
              modified_pis |-> {prev_entries[i].pi : i \in DOMAIN prev_entries}]
    ELSE LET walk == walk_event_chain(p.event_head, nfetch, tipFail)
         IN  [entries |-> walk.entries, count |-> walk.count,
              prev_all_cids |-> {}, modified_pis |-> NonePis]

\* The events the walk of this build asks the store for.
ToWalk(p) ==
    IF Mode(p) = "incremental"
    THEN ChainUntil(p.event_head, p.snapshot_event_cid)
    ELSE Chain(p.event_head)

\* What the store lets a walk see: nfetch events are fetched before a dag/get
\* fails (all of them when none fails), and for the events in tipFail the
\* files/read of the tip file fails.
StoreOutcomes(p) ==
    {o \in [nfetch : 0..Len(ToWalk(p)), tipFail : SUBSET Range(ToWalk(p))] :
        o.tipFail \subseteq Range(Prefix(ToWalk(p), o.nfetch))}

\* main, phases 1 to 4: walk the events (they are immutable, so the walk
\* reads the same chain whenever it runs) and read the tips as they are now,
\* collect the CIDs, dag put the snapshot and write the pointer.  No entries
\* is fatal.  bwalk keeps what the store let the walk see.
BuilderCommit(b) ==
    /\ bpc[b] = "build"
    /\ \E o \in StoreOutcomes(bptr[b]) :
         LET p == bptr[b]
             walk == Phase1(p, o.nfetch, o.tipFail)
             snapshot_cid == Len(snapshots) + 1
         IN  /\ bwalk' = [bwalk EXCEPT ![b] = o]
             /\ IF walk.count = 0
                THEN UNCHANGED <<snapshots, bsnap, pointer>>
                ELSE /\ snapshots' = Append(snapshots,
                           build_snapshot_json(walk.entries, p, p.snapshot_seq + 1,
                               walk.count,
                               collect_all_cids(walk.entries, walk.prev_all_cids,
                                                walk.modified_pis),
                               walk.prev_all_cids))
                     /\ bsnap' = [bsnap EXCEPT ![b] = snapshot_cid]
                     /\ pointer' = SnapshotPointer(p, snapshot_cid,
                                       p.snapshot_seq + 1, walk.count)
    /\ bpc' = [bpc EXCEPT ![b] = "finally"]
    /\ UNCHANGED <<events, lockFile, clock, queue, bptr, builds>>
    /\ UNCHANGED <<tips, clientVars, callerVars, workerVars, schedVars, histVars>>

\* main: an exception or a KeyboardInterrupt anywhere between check_lock and
\* the pointer write (a pointer read or a dag put that raises, Ctrl-C): the
\* except clauses call error() or sys.exit(1), main's finally runs next.
BuilderRaise(b) ==
    /\ bpc[b] \in {"read", "build"}
    /\ bpc' = [bpc EXCEPT ![b] = "finally"]
    /\ UNCHANGED <<storeVars, bptr, bsnap, bwalk, builds>>
    /\ UNCHANGED <<tips, clientVars, callerVars, workerVars, schedVars, histVars>>

\* The builder process is killed (SIGKILL, out of memory, power loss): no
\* finally runs, the lock file stays.
BuilderDies(b) ==
    /\ bpc[b] \in {"read", "build"}
    /\ bpc' = [bpc EXCEPT ![b] = "idle"]
    /\ bptr' = [bptr EXCEPT ![b] = ZeroPointer]
    /\ bsnap' = [bsnap EXCEPT ![b] = NULL]
    /\ bwalk' = [bwalk EXCEPT ![b] = NoWalk]
    /\ UNCHANGED <<storeVars, builds>>
    /\ UNCHANGED <<tips, clientVars, callerVars, workerVars, schedVars, histVars>>

\* A finally that leaves the lock file where it is.
BuilderFinallyKeepsLock(b) ==
    /\ bpc[b] \in {"finally", "failfast"}
    /\ bpc' = [bpc EXCEPT ![b] = "idle"]
    /\ bptr' = [bptr EXCEPT ![b] = ZeroPointer]
    /\ bsnap' = [bsnap EXCEPT ![b] = NULL]
    /\ bwalk' = [bwalk EXCEPT ![b] = NoWalk]
    /\ UNCHANGED <<storeVars, builds>>
    /\ UNCHANGED <<tips, clientVars, callerVars, workerVars, schedVars, histVars>>

\* main's finally: cleanup_lock() removes the lock file if there is one.
BuilderFinally(b) ==
    /\ bpc[b] \in {"finally", "failfast"}
    /\ lockFile' = [exists |-> FALSE, stale |-> FALSE]
    /\ bpc' = [bpc EXCEPT ![b] = "idle"]
    /\ bptr' = [bptr EXCEPT ![b] = ZeroPointer]
    /\ bsnap' = [bsnap EXCEPT ![b] = NULL]
    /\ bwalk' = [bwalk EXCEPT ![b] = NoWalk]
    /\ UNCHANGED <<events, pointer, snapshots, clock, queue, builds>>
    /\ UNCHANGED <<tips, clientVars, callerVars, workerVars, schedVars, histVars>>

build_snapshot(b) ==
    \/ BuilderStart(b)
    \/ BuilderRead(b)
    \/ BuilderCommit(b)
    \/ BuilderFinally(b)

trigger_scheduled_snapshot ==
    \/ SchedSkip
    \/ SchedRead
    \/ SchedWrite
    \/ \E b \in Builders : SchedLaunch(b)

\* ------------------------------------------------- events.query_events
\* query_events, the for loop: up to limit events from current_cid back
\* along prev; the next cursor is null at the end of the chain, and the
\* event not yet fetched otherwise.
RECURSIVE QueryWalk(_, _)
QueryWalk(limit, current_cid) ==
    IF limit <= 0 THEN [items |-> <<>>, next_cursor |-> current_cid]
    ELSE IF events[current_cid].prev = NULL
    THEN [items |-> <<current_cid>>, next_cursor |-> NULL]
    ELSE LET rest == QueryWalk(limit - 1, events[current_cid].prev)
         IN  [items |-> <<current_cid>> \o rest.items, next_cursor |-> rest.next_cursor]

\* A query that starts every page at the head.
query_events_from_head(limit, cursor) ==
    IF pointer.event_head = NULL THEN [items |-> <<>>, next_cursor |-> NULL]
    ELSE QueryWalk(limit, pointer.event_head)

\* query_events: start from the cursor, or from the head when there is none.
query_events(limit, cursor) ==
    LET current_cid == IF cursor # NULL THEN cursor ELSE pointer.event_head
    IN  IF current_cid = NULL THEN [items |-> <<>>, next_cursor |-> NULL]
        ELSE QueryWalk(limit, current_cid)

\* GET /events without a cursor: the first page of a pagination.  The items
\* are kept as their event_cid; head is the event_head the walk started at.
ListFirst(limit) ==
    /\ reader.pc = "idle"
    /\ LET page == query_events(limit, NULL)
       IN  reader' = [pc |-> IF page.next_cursor # NULL THEN "paging" ELSE "done",
                      limit |-> limit,
                      cursor |-> page.next_cursor,
                      items |-> page.items,
                      head |-> pointer.event_head]
    /\ UNCHANGED <<storeVars, tipVars, test>>
    /\ UNCHANGED <<callerVars, workerVars, schedVars, builderVars, histVars>>

\* GET /events with the next_cursor of the page before (has_more was true).
ListNext ==
    /\ reader.pc = "paging"
    /\ LET page == query_events(reader.limit, reader.cursor)
       IN  reader' = [reader EXCEPT
                         !.pc = IF page.next_cursor # NULL THEN "paging" ELSE "done",
                         !.cursor = page.next_cursor,
                         !.items = @ \o page.items]
    /\ UNCHANGED <<storeVars, tipVars, test>>
    /\ UNCHANGED <<callerVars, workerVars, schedVars, builderVars, histVars>>

list_events == (\E limit \in 0..MaxLimit : ListFirst(limit)) \/ ListNext

\* ------------------------------------- scripts/test_proof_integration.py
\* The script not run.
NoTest ==
    [pc |-> "idle", cid_list |-> <<>>, merkle_root |-> NoRoot, sorted_cids |-> <<>>,
     prev_cids |-> {}, curr_cids |-> {}, consistency |-> NoConsistency,
     tip_cid |-> NoCid]

\* The CIDs the script's sets are made of: manifests and events.
TestCids ==
    {IF n % 2 = 1 THEN ManifestCid("B", n) ELSE EventCid(n) : n \in 1..MaxCids}

\* The lists without repetition of the elements of cids: the orders in which
\* a set can be collected or iterated.
RECURSIVE Orders(_)
Orders(cids) ==
    IF cids = {} THEN {<<>>}
    ELSE UNION {{<<c>> \o o : o \in Orders(cids \ {c})} : c \in cids}

\* main, phase 2: build_merkle_root(all_cids), the set yielding its
\* elements in any order.
TestMerkle ==
    /\ test.pc = "start"
    /\ \E order \in Orders(Range(test.cid_list)) :
         LET proof == build_merkle_root(order)
         IN  test' = [test EXCEPT !.pc = "merkle",
                                  !.merkle_root = proof.merkle_root,
                                  !.sorted_cids = proof.sorted_cids]
    /\ UNCHANGED <<storeVars, tipVars, reader>>
    /\ UNCHANGED <<callerVars, workerVars, schedVars, builderVars, histVars>>

\* collect_version_chain of the script, the same loop as the builder's
\* collect_version_chain_cids, on the tip of an entity.
TestChain ==
    /\ test.pc = "start"
    /\ test' = [test EXCEPT !.pc = "chain",
                             !.cid_list = collect_version_chain_cids(test.tip_cid)]
    /\ UNCHANGED <<storeVars, tipVars, reader>>
    /\ UNCHANGED <<callerVars, workerVars, schedVars, builderVars, histVars>>

\* main, phases 3 and 4: generate_consistency_info(prev_cids, curr_cids).
TestConsistency ==
    /\ test.pc = "start"
    /\ test' = [test EXCEPT !.pc = "consistency",
                            !.consistency =
                                generate_consistency_info(test.prev_cids, test.curr_cids)]
    /\ UNCHANGED <<storeVars, tipVars, reader>>
    /\ UNCHANGED <<callerVars, workerVars, schedVars, builderVars, histVars>>

\* ------------------------------------------------------- specifications
Init == InitProgram /\ test = NoTest

\* The script about to build the tree of CIDs collected in any order.
InitMerkle ==
    /\ InitProgram
    /\ \E cids \in SUBSET TestCids : \E order \in Orders(cids) :
         test = [NoTest EXCEPT !.pc = "start", !.cid_list = order]

SpecMerkle == InitMerkle /\ [][TestMerkle]_vars

\* The sets of the script's phases 3 and 4: all but the last 10 of 20 CIDs
\* against the 20, and the first 100 of 150 against CIDs 51 to 150.
Cids(from, to) == {EventCid(n) : n \in from..to}

ScriptSets == {<<Cids(1, 10), Cids(1, 20)>>, <<Cids(1, 100), Cids(51, 150)>>}

\* The script about to compare two CID sets.
InitConsistency ==
    /\ InitProgram
    /\ \E sets \in ((SUBSET TestCids) \X (SUBSET TestCids)) \cup ScriptSets :
         test = [NoTest EXCEPT !.pc = "start",
                               !.prev_cids = sets[1], !.curr_cids = sets[2]]

SpecConsistency == InitConsistency /\ [][TestConsistency]_vars

\* The script about to collect the version chain of an entity with up to
\* MaxChain versions.
InitChain ==
    /\ InitProgram
    /\ \E pi \in PIs, ver \in 1..MaxChain :
         test = [NoTest EXCEPT !.pc = "start", !.tip_cid = ManifestCid(pi, ver)]

SpecChain == InitChain /\ [][TestChain]_vars

Enqueue == \E type \in EventTypes, pi \in PIs : enqueue_event(type, pi, tips[pi], TipOf(pi))

\* Ingest: HTTP handlers calling append_event with any arguments, clients
\* of the queue enqueueing create events, and the queue worker.
NextIngest ==
    \/ \E c \in Callers : append_event(c)
    \/ (\E pi \in PIs : enqueue_event("create", pi, tips[pi], TipOf(pi)))
    \/ _event_worker

SpecIngest == Init /\ [][NextIngest]_vars

\* Concurrent calls of append_event only.
NextAppend == \E c \in Callers : append_event(c)

SpecAppend == Init /\ [][NextAppend]_vars

\* The ingest queue and its worker only.
NextQueue == Enqueue \/ _event_worker

SpecQueue == Init /\ [][NextQueue]_vars

\* The queue worker and one builder process at a time, started by hand, over
\* a chain of create events.
NextBuild ==
    \/ (\E pi \in PIs : enqueue_event("create", pi, tips[pi], TipOf(pi)))
    \/ _event_worker
    \/ build_snapshot(1)

SpecBuild == Init /\ [][NextBuild]_vars

\* Builder processes started at any time, over a chain of create events.
NextBuilders ==
    \/ (Requests < MaxSysEvents /\ \E pi \in PIs : enqueue_event("create", pi, tips[pi], TipOf(pi)))
    \/ _event_worker
    \/ \E b \in Builders : build_snapshot(b)
    \/ LockAges

SpecBuilders == Init /\ [][NextBuilders]_vars

\* The exits of the builder: two builders started by hand on a chain of
\* events of one PI, with the exceptions and interrupts that can end a run.
NextExit ==
    \/ (Requests < MaxSysEvents /\ enqueue_event("create", "A", tips["A"], TipOf("A")))
    \/ _event_worker
    \/ \E b \in {1, 2} : build_snapshot(b)
    \/ \E b \in {1, 2} : BuilderRaise(b)
    \/ LockAges

SpecExit == Init /\ [][NextExit]_vars

\* Builders that can be killed: the scheduler and a builder started by hand
\* or by the scheduler, which may die with the lock file in place.
NextCrash ==
    \/ (Requests < MaxSysEvents /\ enqueue_event("create", "A", tips["A"], TipOf("A")))
    \/ _event_worker
    \/ SchedSkip
    \/ SchedRead
    \/ SchedWrite
    \/ SchedLaunch(1)
    \/ build_snapshot(1)
    \/ BuilderDies(1)
    \/ LockAges

SpecCrash == Init /\ [][NextCrash]_vars

\* The queue, its worker, the owner of entity A moving its tip, and one
\* builder.  The first event sent for an entity is its create, the later
\* ones are updates.
Known(pi) ==
    \/ \E c \in DOMAIN events : events[c].pi = pi
    \/ \E i \in DOMAIN queue : queue[i].pi = pi
    \/ \E i \in DOMAIN held : held[i].pi = pi

NextProof ==
    \/ /\ Requests < MaxSysEvents
       /\ \E pi \in PIs : enqueue_event(IF Known(pi) THEN "update" ELSE "create", pi,
                                       tips[pi], TipOf(pi))
    \/ _event_worker
    \/ TipUpdate("A")
    \/ build_snapshot(1)

SpecProof == Init /\ [][NextProof]_vars

\* The queue, its worker and a client paging through the events.
NextQuery ==
    \/ Enqueue
    \/ _event_worker
    \/ list_events

SpecQuery == Init /\ [][NextQuery]_vars

\* The queue and its worker over a store whose pointer reads can fail.
NextReadFault ==
    \/ Enqueue
    \/ _event_worker
    \/ BatchRead500
    \/ BatchReadRaise

SpecReadFault == Init /\ [][NextReadFault]_vars

\* The queue and its worker while the server shuts down: stop_worker runs
\* once the handlers have returned, so nothing is enqueued after it.
NextShutdown ==
    \/ (~shutdown /\ \E pi \in PIs : enqueue_event("create", pi, tips[pi], TipOf(pi)))
    \/ _event_worker
    \/ WorkerExit
    \/ stop_worker

SpecShutdown == Init /\ [][NextShutdown]_vars

\* The system as deployed: the queue worker, the scheduler and the builder it
\* runs (or one started by hand while none runs), over the create events of
\* one entity.
Next ==
    \/ (Requests < MaxSysEvents /\ enqueue_event("create", "A", tips["A"], TipOf("A")))
    \/ _event_worker
    \/ SchedSkip
    \/ SchedRead
    \/ SchedWrite
    \/ SchedLaunch(1)
    \/ build_snapshot(1)
    \/ LockAges

Spec == Init /\ [][Next]_vars

\* ------------------------------------------------------------ properties
Max(S) == CHOOSE x \in S : \A y \in S : y <= x

\* C1: when N appends have completed (append_event or a batch, the pointer
\* write included), event_count is N and the walk of the prev links from
\* event_head visits exactly N events.
C1_CountIsAppends ==
    /\ pointer.event_count = appended
    /\ Len(Chain(pointer.event_head)) = appended

\* C2: the pointer write of a builder keeps every event that was reachable
\* from event_head reachable, and does not lower event_count.
C2_BuildKeepsAppends ==
    [][\A b \in Builders :
          (bpc[b] = "build" /\ bpc'[b] = "finally" /\ bsnap'[b] # NULL)
          => /\ Reach(pointer.event_head) \subseteq Reach(pointer'.event_head)
             /\ pointer'.event_count >= pointer.event_count]_vars

C4_OneAppender ==
    Cardinality({c \in Callers : cpc[c] \in {"put", "write"}})
        + (IF wpc = "items" THEN 1 ELSE 0) <= 1

\* C5: concurrent calls of append_event that succeeded left exactly one event
\* each in one line: event_count is their number, the chain from event_head
\* is their events, and the prev of each is the CID of the call that held
\* the lock before it (null for the first).
C5_Serialized ==
    /\ pointer.event_count = appended
    /\ Cardinality(committed) = appended
    /\ Reach(pointer.event_head) = committed
    /\ \A c \in committed :
           events[c].prev = Max({d \in committed : d < c} \cup {NULL})

\* C5 witness: one call has succeeded, a second holds the lock with its event
\* stored behind the first, and a third waits for the lock.
C5_Witness ==
    \E c, d \in Callers :
        /\ cpc[c] = "write"
        /\ events[cnew[c]].prev \in committed
        /\ cpc[d] = "wait"

C7_TotalIsDistinctPIs ==
    pointer.total_count =
        Cardinality({events[c].pi : c \in
            {d \in Reach(pointer.event_head) : events[d].type = "create"}})

\* C8: at most one builder is past check_lock and running its phases.
C8_OneBuilder ==
    Cardinality({b \in Builders : bpc[b] \in {"read", "build"}}) <= 1

\* C9: snapshot_event_cid, when set, is event_head or an ancestor of it.
C9_CutIsAncestor ==
    pointer.snapshot_event_cid # NULL
        => pointer.snapshot_event_cid \in Reach(pointer.event_head)

\* C9 witness: events were appended after the cut of a snapshot that the
\* scheduler had launched.
C9_Witness ==
    /\ pointer.snapshot_event_cid # NULL
    /\ pointer.snapshot_event_cid # pointer.event_head
    /\ fires > 0

\* A builder that has just committed a full build.
FullBuilt(b) ==
    bpc[b] = "finally" /\ bsnap[b] # NULL /\ Mode(bptr[b]) = "full"

\* entries has one entry for each PI of pis and no other, each with the
\* chain_cid and ts of the newest event of its PI among cids, oldest first.
EntriesAre(entries, cids, pis) ==
    /\ Len(entries) = Cardinality(pis)
    /\ {entries[i].pi : i \in DOMAIN entries} = pis
    /\ \A i \in DOMAIN entries :
         LET last == Max({c \in cids : events[c].pi = entries[i].pi})
         IN  entries[i].chain_cid = last /\ entries[i].ts = events[last].ts
    /\ \A i, j \in DOMAIN entries : i < j => entries[i].ts < entries[j].ts

C17_HttpIsQueued ==
    \A c \in DOMAIN events : events[c].via = "queue"

\* The step in which builder b commits: snapshot stored and pointer written.
Commits(b) == bpc[b] = "build" /\ bsnap'[b] # NULL

\* C19: the pointer a committing build writes has snapshot_seq one above
\* the one read at build start, latest_snapshot_cid the new snapshot, and
\* snapshot_event_cid the event_head read at build start, which is the
\* snapshot's event_cid.
C19_CommitPointer ==
    [][\A b \in Builders : Commits(b) =>
          /\ pointer'.snapshot_seq = bptr[b].snapshot_seq + 1
          /\ pointer'.latest_snapshot_cid = bsnap'[b]
          /\ pointer'.snapshot_event_cid = bptr[b].event_head
          /\ snapshots'[bsnap'[b]].event_cid = bptr[b].event_head]_vars

\* C19 witness: a second build has committed, on top of events appended
\* after the first.
C19_Witness ==
    \E b \in Builders :
        /\ bpc[b] = "finally"
        /\ bsnap[b] = 2
        /\ bptr[b].snapshot_seq = 1
        /\ bptr[b].event_head # bptr[b].snapshot_event_cid

\* C20: the pointer a committing build writes has snapshot_count and
\* total_count equal to the number of entries of the snapshot, and so has
\* the snapshot's total_count.
C20_CountIsEntries ==
    [][\A b \in Builders : Commits(b) =>
          LET n == Len(snapshots'[bsnap'[b]].entries) IN
          /\ pointer'.snapshot_count = n
          /\ pointer'.total_count = n
          /\ snapshots'[bsnap'[b]].total_count = n]_vars

\* C15 as stated: when the worker has exited, every item enqueued before the
\* shutdown flag was set has been taken from the queue and processed.
C15_Drained ==
    wpc = "done" => queue = <<>> /\ batch = <<>>

\* C15 amended: the same when stop_worker did not cancel the worker (it
\* finished within the 60 s stop_worker waits for it).
C15_DrainedUnlessCancelled ==
    (wpc = "done" /\ ~cancelled) => queue = <<>> /\ batch = <<>> /\ held = <<>>

\* C15 witness: the worker has exited by itself, the flag set, and all three
\* items that were enqueued are on the chain.
C15_Witness ==
    /\ wpc = "done"
    /\ shutdown
    /\ ~cancelled
    /\ Len(Chain(pointer.event_head)) = 3

\* C16: in a batch, a failed item leaves the counts and the running head as
\* they were and the batch goes on; every event written has prev equal to
\* the event written before it in the batch, or to the head read at batch
\* start; the counts carried by the batch grow by the events written only.
C16_FailedItemSkipped ==
    wpc = "items" =>
        /\ events_written = Cardinality(wnew)
        /\ Len(held) - Len(batch) >= events_written
        /\ wptr.event_count = Len(Chain(wptr.event_head)) + events_written
        /\ wptr.total_count =
               Cardinality({c \in Reach(wptr.event_head) \cup wnew :
                               events[c].type = "create"})
        /\ current_head = Max(wnew \cup {wptr.event_head})
        /\ \A c \in wnew :
               events[c].prev = Max({d \in wnew : d < c} \cup {wptr.event_head})

\* C16 witness: the first item of a batch of three failed, the second was
\* written with the running head as prev, the third is still to come.
C16_Witness ==
    /\ wpc = "items"
    /\ Len(held) = 3
    /\ Len(batch) = 1
    /\ events_written = 1
    /\ \E c \in wnew : events[c].ts = held[2].ts

\* C18: a pointer write never drops events from the chain: what was
\* reachable from the head stays reachable (a failed pointer read makes the
\* batch write nothing instead of starting a fresh chain).
C18_ChainNeverReplaced ==
    [][Reach(pointer.event_head) \subseteq Reach(pointer'.event_head)]_vars

\* The step in which builder b commits an incremental build.
IncrCommits(b) == Commits(b) /\ Mode(bptr[b]) = "incremental"

\* Every read of the walk that b commits succeeded.
CleanWalk(b) ==
    /\ bwalk'[b].nfetch = Len(ToWalk(bptr[b]))
    /\ bwalk'[b].tipFail = {}

\* The (pi, ver, tip_cid) triples of a list of entries.
Triples(entries) ==
    {<<entries[i].pi, entries[i].ver, entries[i].tip_cid>> : i \in DOMAIN entries}

\* The checkpoint of a full build at event_head whose reads all succeed, with
\* the tip files as they are.
FullEntries(event_head) ==
    walk_event_chain(event_head, Len(Chain(event_head)), {}).entries

\* The PIs with an event in the delta of the build of pointer p.
DeltaPis(p) ==
    {events[c].pi : c \in Range(ChainUntil(p.event_head, p.snapshot_event_cid))}

\* For the PIs without an event in the delta, the previous snapshot holds
\* what a full build at snapshot_event_cid gives from the present tip files.
PrevIsCurrent(p) ==
    {t \in Triples(snapshots[p.latest_snapshot_cid].entries) : t[1] \notin DeltaPis(p)}
        = {t \in Triples(FullEntries(p.snapshot_event_cid)) : t[1] \notin DeltaPis(p)}

FullCids(event_head) == collect_all_cids(FullEntries(event_head), {}, NonePis)

\* C12: an incremental build that commits the entries of a full build at
\* the same event_head also commits the all_cids and the merkle_root of that
\* full build, also when a PI was updated since the previous snapshot.
C12_SameProof ==
    [][\A b \in Builders :
          (/\ IncrCommits(b) /\ CleanWalk(b)
           /\ Triples(snapshots'[bsnap'[b]].entries)
                  = Triples(FullEntries(bptr[b].event_head))) =>
              /\ Range(snapshots'[bsnap'[b]].all_cids) = FullCids(bptr[b].event_head)
              /\ snapshots'[bsnap'[b]].merkle_root
                     = build_merkle_root(IterOrder(FullCids(bptr[b].event_head))).merkle_root]_vars

\* C13: a build that commits with previous CIDs of which some is no longer
\* in the closure of the CIDs of its live set (its entries) records
\* deleted_count > 0 and is_append_only = false.
C13_DeletionRecorded ==
    [][\A b \in Builders :
          LET snap == snapshots'[bsnap'[b]]
              prev_all_cids == Range(snapshots[bptr[b].latest_snapshot_cid].all_cids)
              closure == collect_all_cids(snap.entries, {}, NonePis)
          IN  (IncrCommits(b) /\ ~(prev_all_cids \subseteq closure)) =>
                  /\ snap.consistency.deleted_count > 0
                  /\ ~snap.consistency.is_append_only]_vars

\* C14: a snapshot whose prev_snapshot is S1, both with all_cids, has every
\* CID of S1's all_cids, and its consistency record, when it has one, has
\* deleted_count = 0.
C14_AppendOnly ==
    \A s2 \in DOMAIN snapshots :
        LET S2 == snapshots[s2] IN
        (/\ S2.prev_snapshot # NULL
         /\ S2.all_cids # <<>>
         /\ snapshots[S2.prev_snapshot].all_cids # <<>>) =>
            /\ Range(snapshots[S2.prev_snapshot].all_cids) \subseteq Range(S2.all_cids)
            /\ ~S2.consistency.is_none => S2.consistency.deleted_count = 0

\* C14 witness: a snapshot after an update of a PI: it has CIDs its
\* predecessor lacks, a consistency record, and an entry whose chain_cid is
\* not the one its predecessor had for that PI.
C14_Witness ==
    \E s2 \in DOMAIN snapshots :
        LET S2 == snapshots[s2] IN
        /\ S2.prev_snapshot # NULL
        /\ snapshots[S2.prev_snapshot].all_cids # <<>>
        /\ ~S2.consistency.is_none
        /\ S2.consistency.added_count > 0
        /\ \E i \in DOMAIN S2.entries, j \in DOMAIN snapshots[S2.prev_snapshot].entries :
               /\ S2.entries[i].pi = snapshots[S2.prev_snapshot].entries[j].pi
               /\ S2.entries[i].chain_cid # snapshots[S2.prev_snapshot].entries[j].chain_cid

\* The pointer has both fields of a previous snapshot.
BothSet(p) == p.latest_snapshot_cid # NULL /\ p.snapshot_event_cid # NULL

\* C21: a builder whose pointer has both snapshot fields set and
\* snapshot_event_cid = event_head goes to its exit writing no snapshot and
\* no pointer; a build that commits with both set and snapshot_event_cid
\* different from event_head commits the incremental walk over the previous
\* snapshot's entries; every other build that commits commits the full walk.
C21_ModeSelection ==
    [][\A b \in Builders :
          /\ (/\ bpc[b] = "read" /\ bpc'[b] # "read"
              /\ BothSet(pointer) /\ pointer.snapshot_event_cid = pointer.event_head) =>
                 /\ bpc'[b] = "finally" /\ bsnap'[b] = NULL
                 /\ snapshots' = snapshots /\ pointer' = pointer
          /\ (bpc[b] = "finally" /\ bpc'[b] # "finally") =>
                 snapshots' = snapshots /\ pointer' = pointer
          /\ Commits(b) =>
                 LET p == bptr[b]
                     o == bwalk'[b]
                     entries == snapshots'[bsnap'[b]].entries
                 IN  /\ ~(BothSet(p) /\ p.snapshot_event_cid = p.event_head)
                     /\ IF BothSet(p)
                        THEN entries = Reverse(walk_event_chain_incremental(
                                 p.event_head, p.snapshot_event_cid,
                                 DictOf(snapshots[p.latest_snapshot_cid].entries),
                                 o.nfetch, o.tipFail))
                        ELSE entries = Reverse(walk_event_chain(
                                 p.event_head, o.nfetch, o.tipFail).entries)]_vars

\* C21 witness: after a build has committed, a builder has read a pointer
\* with nothing new and is at its exit with nothing written.
C21_Witness ==
    \E b \in Builders :
        /\ bpc[b] = "finally" /\ bsnap[b] = NULL
        /\ BothSet(bptr[b]) /\ bptr[b].snapshot_event_cid = bptr[b].event_head
        /\ pointer = bptr[b]
        /\ Len(snapshots) >= 1

\* What every page of a pagination keeps: the page has at most limit items;
\* the items returned so far are the newest events of the chain that the
\* first page started at, each once, newest first; and has_more is false
\* exactly when they are all of that chain.
PageIsNext ==
    /\ Len(reader'.items) - Len(reader.items) <= reader'.limit
    /\ reader'.items = Prefix(Chain(reader'.head), Len(reader'.items))
    /\ reader'.pc = "done" <=> reader'.items = Chain(reader'.head)

\* C22 as stated: every page is the next stretch of the chain, and a page
\* with has_more = true has brought the pagination forward, so that
\* repeating it returns every event.
C22_Pagination ==
    [][reader' # reader =>
          /\ PageIsNext
          /\ reader'.pc = "paging" => Len(reader'.items) > Len(reader.items)]_vars

\* C22 amended: the same for limit >= 1.
C22_PaginationPositiveLimit ==
    [][reader' # reader =>
          /\ PageIsNext
          /\ (reader'.pc = "paging" /\ reader'.limit >= 1) =>
                 Len(reader'.items) > Len(reader.items)]_vars

\* C22 witness: three events have been returned in two pages of limit 2 and
\* the pagination has ended.
C22_Witness ==
    /\ reader.pc = "done"
    /\ reader.limit = 2
    /\ Len(reader.items) = 3

\* C23: the merkle_root and the sorted all_cids list built from a set of
\* CIDs are the same for every order in which the set yields its CIDs.
C23_RootOfSet ==
    test.pc = "merkle" =>
        \A order \in Orders(Range(test.cid_list)) :
            LET proof == build_merkle_root(order)
            IN  /\ proof.merkle_root = test.merkle_root
                /\ proof.sorted_cids = test.sorted_cids

\* C23 witness: a tree was built of three CIDs (an odd level) that were
\* collected in an order that is not the sorted one.
C23_Witness ==
    /\ test.pc = "merkle"
    /\ Len(test.cid_list) = 3
    /\ test.cid_list # test.sorted_cids
    /\ Range(test.cid_list) = Range(test.sorted_cids)

\* C24: generate_consistency_info(prev, curr) returns the sizes of prev, of
\* curr, of curr \ prev and of prev \ curr, and is_append_only exactly when
\* nothing of prev is missing; 10 extra CIDs over a subset give 10, 0, true
\* and 50 CIDs of prev missing give 50, false.
C24_ConsistencyCounts ==
    test.pc = "consistency" =>
        LET info == test.consistency
            prev == test.prev_cids
            curr == test.curr_cids
        IN  /\ ~info.is_none
            /\ info.prev_cid_count = Cardinality(prev)
            /\ info.curr_cid_count = Cardinality(curr)
            /\ info.added_count = Cardinality({c \in curr : c \notin prev})
            /\ info.deleted_count = Cardinality({c \in prev : c \notin curr})
            /\ info.is_append_only <=> (info.deleted_count = 0)
            /\ (prev \subseteq curr /\ Cardinality(curr) = Cardinality(prev) + 10) =>
                   info.added_count = 10 /\ info.deleted_count = 0 /\ info.is_append_only
            /\ Cardinality(prev \ curr) = 50 =>
                   info.deleted_count = 50 /\ ~info.is_append_only

\* C24 witness: the script's phase 4 has run: 100 CIDs against 100 of which
\* 50 are others, and the record has deleted_count = 50, is_append_only false.
C24_Witness ==
    /\ test.pc = "consistency"
    /\ Cardinality(test.prev_cids) = 100
    /\ Cardinality(test.curr_cids) = 100
    /\ test.consistency.deleted_count = 50
    /\ test.consistency.added_count = 50
    /\ ~test.consistency.is_append_only

\* C25: when a builder that failed fast on the lock of a running builder
\* exits, the lock file is still there.
C25_FailFastKeepsLock ==
    [][\A b \in Builders :
          (/\ bpc[b] = "failfast" /\ bpc'[b] = "idle"
           /\ \E other \in Builders \ {b} : bpc[other] \in {"read", "build"}) =>
              lockFile'.exists]_vars

\* C26: a pointer write of the batch worker or of the scheduler's trigger
\* stamp leaves latest_snapshot_cid, snapshot_event_cid and snapshot_seq as
\* they are in the pointer, and snapshot_seq never decreases.
Stanza(p) == <<p.latest_snapshot_cid, p.snapshot_event_cid, p.snapshot_seq>>

C26_StanzaNotReverted ==
    [][/\ ((wpc = "items" /\ wpc' # "items") \/ (spc = "write" /\ spc' # "write")) =>
              Stanza(pointer') = Stanza(pointer)
       /\ pointer'.snapshot_seq >= pointer.snapshot_seq]_vars

\* C27: the scheduler's write changes only last_snapshot_trigger of the
\* pointer that is current when it writes.
C27_StampOnly ==
    [][(spc = "write" /\ spc' # "write") =>
          pointer' = [pointer EXCEPT !.last_snapshot_trigger = pointer'.last_snapshot_trigger]]_vars

\* C28: an incremental build whose walk met no store failure gives every PI
\* of the delta the ts and chain_cid of the newest delta event of that PI
\* (the first one met walking backwards from event_head).
C28_NewestDeltaWins ==
    [][\A b \in Builders : (IncrCommits(b) /\ CleanWalk(b)) =>
          LET delta == ChainUntil(bptr[b].event_head, bptr[b].snapshot_event_cid)
              entries == snapshots'[bsnap'[b]].entries
          IN  \A i \in DOMAIN delta :
                  (\A j \in 1..(i - 1) : events[delta[j]].pi # events[delta[i]].pi) =>
                      \E k \in DOMAIN entries :
                          /\ entries[k].pi = events[delta[i]].pi
                          /\ entries[k].chain_cid = delta[i]
                          /\ entries[k].ts = events[delta[i]].ts]_vars

\* C29: the entries of a snapshot committed by an incremental build are in
\* order of ts, oldest first.
C29_IncrementalOldestFirst ==
    [][\A b \in Builders : IncrCommits(b) =>
          LET entries == snapshots'[bsnap'[b]].entries
          IN  \A i, j \in DOMAIN entries : i < j => entries[i].ts <= entries[j].ts]_vars

\* C30: every entry of every committed snapshot has the tip_cid recorded in
\* the event its chain_cid names.
C30_EntryTipIsEventTip ==
    \A s \in DOMAIN snapshots : \A i \in DOMAIN snapshots[s].entries :
        LET entry == snapshots[s].entries[i]
        IN  entry.tip_cid = events[entry.chain_cid].tip_cid

\* C31: an incremental build that commits has fetched every event between
\* event_head and the previous snapshot_event_cid.
C31_DeltaFullyVisited ==
    [][\A b \in Builders : IncrCommits(b) =>
          bwalk'[b].nfetch
              = Len(ChainUntil(bptr[b].event_head, bptr[b].snapshot_event_cid))]_vars

\* C32: a failed store write in append_event changes neither the chain nor
\* the pointer; a failed pointer write after the event is stored leaves the
\* pointer as it is and the stored event out of reach of event_head; the
\* event of every append is linked to the event_head of the pointer, which
\* never reaches an event whose pointer write failed.
C32_FailedAppend ==
    [][/\ \A c \in Callers :
             /\ (cpc[c] = "put" /\ cpc'[c] = "idle") =>
                    events' = events /\ pointer' = pointer
             /\ (cpc[c] = "write" /\ cpc'[c] = "idle" /\ committed' = committed) =>
                    /\ pointer' = pointer
                    /\ cnew[c] \in DOMAIN events'
                    /\ cnew[c] \notin Reach(pointer'.event_head)
             /\ (cpc[c] = "put" /\ cpc'[c] = "write") =>
                    events'[cnew'[c]].prev = pointer.event_head
       /\ Reach(pointer'.event_head) \subseteq committed']_vars

\* An event whose pointer write failed is in the store, a later append has
\* succeeded, and its event is linked past the dangling one to the old head.
C32_Witness ==
    \E d, e \in DOMAIN events :
        /\ \A c \in Callers : cpc[c] = "idle"
        /\ d \notin committed /\ e \in committed
        /\ d < e
        /\ pointer.event_head = e
        /\ events[e].prev = events[d].prev
        /\ events[d].prev # NULL

\* C33: no two events of the chain come from the same queue item (an item is
\* known by the ts it was stamped with), and event_count is not more than
\* the number of items that have an event.
C33_ItemOnce ==
    /\ \A c, d \in Reach(pointer.event_head) : events[c].ts = events[d].ts => c = d
    /\ pointer.event_count <= Cardinality({events[c].ts : c \in DOMAIN events})

\* C34: when a builder that took the lock leaves (after a commit, the no-op
\* return, error(), an exception or an interrupt), there is no lock file.
C34_LockRemovedOnExit ==
    [][\A b \in Builders :
          (bpc[b] \in {"read", "build", "finally"} /\ bpc'[b] = "idle") =>
              ~lockFile'.exists]_vars

\* The only builder ever started took the lock and has left without a
\* snapshot although the chain has events: it left through error() or an
\* exception, and the lock file is gone.
C34_Witness ==
    /\ builds = 1
    /\ \A b \in Builders : bpc[b] = "idle"
    /\ pointer.event_head # NULL
    /\ snapshots = <<>>
    /\ ~lockFile.exists

\* C35: a scheduler fire that finds entities, no builder running and the
\* lock file of a dead builder older than 600 s goes on to its pointer write
\* and the start of a builder, which reclaims the lock.
C35_FireReclaimsStaleLock ==
    [][(/\ spc = "idle" /\ fires' = fires + 1
        /\ \A b \in Builders : bpc[b] = "idle"
        /\ lockFile.exists /\ lockFile.stale
        /\ pointer.total_count # 0) => spc' = "write"]_vars

\* C36: the CIDs collected from a tip hold every manifest within max_depth
\* prev-hops of the tip and every component of each of them.
C36_ClosureOfChain ==
    test.pc = "chain" =>
        \A ver \in 1..test.tip_cid[3] :
            test.tip_cid[3] - ver <= max_depth =>
                /\ ManifestCid(test.tip_cid[2], ver) \in Range(test.cid_list)
                /\ \A i \in DOMAIN Manifest(ManifestCid(test.tip_cid[2], ver)).components :
                       Manifest(ManifestCid(test.tip_cid[2], ver)).components[i]
                           \in Range(test.cid_list)

\* C37: in an incremental build whose walk met no store failure, the PIs
\* whose version chains are walked for the CID collection are the PIs with
\* an event in the delta.
C37_WalkedAreDeltaPis ==
    [][\A b \in Builders : (IncrCommits(b) /\ CleanWalk(b)) =>
          LET walk == Phase1(bptr[b], bwalk'[b].nfetch, bwalk'[b].tipFail)
          IN  {walk.entries[i].pi : i \in entries_to_walk(walk.entries, walk.modified_pis)}
                  = DeltaPis(bptr[b])]_vars

\* C38: the entries of every committed snapshot, from a full or an
\* incremental build, have pairwise distinct pi values.
C38_DistinctPis ==
    \A s \in DOMAIN snapshots :
        \A i, j \in DOMAIN snapshots[s].entries :
            i # j => snapshots[s].entries[i].pi # snapshots[s].entries[j].pi

\* A full build and an incremental build over it have committed, the chain
\* has two events of one PI, and the second snapshot has two entries.
C38_Witness ==
    /\ Len(snapshots) = 2
    /\ snapshots[2].prev_snapshot = 1
    /\ Len(snapshots[2].entries) = 2
    /\ Len(Chain(snapshots[2].event_cid)) = 3
    /\ snapshots[1].event_cid # snapshots[2].event_cid

\* C39: a scheduler fire that finds the lock file or a pointer with
\* total_count = 0 leaves the pointer and the builders as they are and ends;
\* any other fire goes on to its pointer write; the scheduler comes to the
\* start of a builder only by the step that writes last_snapshot_trigger,
\* and a builder is started by the scheduler only from there.
C39_FireSkipsOrStamps ==
    [][/\ (spc = "idle" /\ fires' = fires + 1) =>
              IF lockFile.exists \/ pointer.total_count = 0
              THEN /\ pointer' = pointer /\ spc' = "idle"
                   /\ bpc' = bpc /\ lockFile' = lockFile
              ELSE spc' = "write" /\ pointer' = pointer /\ bpc' = bpc
       /\ (spc # "launch" /\ spc' = "launch") =>
              /\ spc = "write"
              /\ pointer'.last_snapshot_trigger = fires
              /\ pointer'.last_snapshot_trigger # pointer.last_snapshot_trigger
              /\ bpc' = bpc
       /\ (spc' # spc /\ bpc' # bpc) => spc = "launch"]_vars

\* The scheduler has stamped the pointer and is about to start the builder.
C39_Witness ==
    /\ spc = "launch"
    /\ pointer.last_snapshot_trigger = fires
    /\ fires = 1
    /\ \A b \in Builders : bpc[b] = "idle"

\* C40: the list the tree is built from is the CIDs in lexicographic order;
\* the root is hash(empty) for no CID, the leaf hash for one, and for more
\* the hash of left || right over the pairs of each level, an odd last node
\* paired with itself: for three CIDs
\* hash(hash(h(a) || h(b)) || hash(h(c) || h(c))).
Leaf(i) == Hash(<<test.sorted_cids[i]>>)
Node(left, right) == Hash(left \o right)

C40_TreeShape ==
    test.pc = "merkle" =>
        /\ Range(test.sorted_cids) = Range(test.cid_list)
        /\ \A i, j \in DOMAIN test.sorted_cids :
               i < j => CidLess(test.sorted_cids[i], test.sorted_cids[j])
        /\ test.merkle_root =
               CASE Len(test.sorted_cids) = 0 -> Hash(<<>>)
                 [] Len(test.sorted_cids) = 1 -> Leaf(1)
                 [] Len(test.sorted_cids) = 2 -> Node(Leaf(1), Leaf(2))
                 [] Len(test.sorted_cids) = 3 ->
                        Node(Node(Leaf(1), Leaf(2)), Node(Leaf(3), Leaf(3)))
                 [] Len(test.sorted_cids) = 4 ->
                        Node(Node(Leaf(1), Leaf(2)), Node(Leaf(3), Leaf(4)))
                 [] Len(test.sorted_cids) = 5 ->
                        Node(Node(Node(Leaf(1), Leaf(2)), Node(Leaf(3), Leaf(4))),
                             Node(Node(Leaf(5), Leaf(5)), Node(Leaf(5), Leaf(5))))
                 [] OTHER -> test.merkle_root

\* The tree of three CIDs given out of order.
C40_Witness ==
    /\ test.pc = "merkle"
    /\ Len(test.sorted_cids) = 3
    /\ test.cid_list[1] = test.sorted_cids[3]
    /\ test.merkle_root = Node(Node(Leaf(1), Leaf(2)), Node(Leaf(3), Leaf(3)))

====
